---- MODULE Spec2Model ----
(***************************************************************************)
(* State-machine model of scraper/scrape.py: the daily scraping run        *)
(* (main), the two extraction chains (fetch_second_hand, fetch_trade),     *)
(* the regex parsers, avg_area and the JSON history store                  *)
(* (load_history / save_history).                                          *)
(*                                                                         *)
(* Numbers are fixed-point: a JSON number x is held as the integer 100*x   *)
(* (so 527 is 52700 and 42244.63 is 4224463).  Dates are day numbers; the  *)
(* code compares ISO strings "YYYY-MM-DD", whose lexicographic order is    *)
(* the order of the days.                                                  *)
(***************************************************************************)
EXTENDS Integers, Sequences, FiniteSets, TLC

\* ---------------------------------------------------------------- bounds
MaxRuns == 2        \* runs of main started in one behaviour
MaxDate == 2        \* date.today() ranges over 1..MaxDate

Dates == 1..MaxDate
Procs == {1}        \* processes running main (one: runs do not overlap)

\* asyncio.sleep(6) between the two page requests
COURTESY_WAIT == 6

\* ------------------------------------------------------------ JSON values
Null == [t |-> "null", c |-> 0]
Num(c) == [t |-> "num", c |-> c]

\* A JSON string that spells the number c / 100 ("527" is Str(52700)).
Str(c) == [t |-> "str", c |-> c]

\* Python truthiness of a JSON value: None and 0 / 0.0 are falsy, a
\* non-empty string is truthy.
Truthy(v) == (v.t = "num" /\ v.c # 0) \/ v.t = "str"

\* dict.get(k): None for a missing key.
Get(d, k) == IF k \in DOMAIN d THEN d[k] ELSE Null

EmptyDict == [k \in {} |-> Null]

\* ----------------------------------------------------- matched text tokens
\* A regex group is a sequence of one-character strings; NoTok: no match.
NoTok == <<"?">>

DigitVal(ch) ==
    CASE ch = "0" -> 0 [] ch = "1" -> 1 [] ch = "2" -> 2 [] ch = "3" -> 3
      [] ch = "4" -> 4 [] ch = "5" -> 5 [] ch = "6" -> 6 [] ch = "7" -> 7
      [] ch = "8" -> 8 [] ch = "9" -> 9

\* str.replace(",", "")
StripCommas(tok) == SelectSeq(tok, LAMBDA ch : ch # ",")

RECURSIVE DigitsVal(_)
DigitsVal(ds) ==
    IF ds = <<>> THEN 0
    ELSE 10 * DigitsVal(SubSeq(ds, 1, Len(ds) - 1)) + DigitVal(ds[Len(ds)])

\* int(group.replace(",", "")), as a fixed-point integer
ParseInt(tok) == Num(100 * DigitsVal(StripCommas(tok)))

DotPos(s) == IF \E i \in 1..Len(s) : s[i] = "."
             THEN CHOOSE i \in 1..Len(s) : s[i] = "." ELSE Len(s) + 1

BadFloat == [t |-> "ValueError", c |-> 0]

\* float(group.replace(",", "")): ValueError when no digit is left ("" or
\* "."); the tokens drawn here carry at most two decimals, so the value is
\* exact in hundredths.
ParseFloat(tok) ==
    LET s  == StripCommas(tok)
        d  == DotPos(s)
        ip == SubSeq(s, 1, d - 1)
        fp == SubSeq(s, d + 1, Len(s))
        f2 == IF Len(fp) = 0 THEN 0
              ELSE IF Len(fp) = 1 THEN 10 * DigitVal(fp[1])
              ELSE 10 * DigitVal(fp[1]) + DigitVal(fp[2])
    IN  IF Len(ip) = 0 /\ Len(fp) = 0 THEN BadFloat
        ELSE Num(100 * DigitsVal(ip) + f2)

\* ----------------------------------------------------------- regex parsers
\* A second-hand page text, by what the code reads of it:
\*   kw    any of "套数", "成交", "昨日" occurs (has_real)
\*   units group 1 of the units pattern, area group 1 of the area pattern
regex_parse_second_hand(text) ==
    LET units == IF text.units = NoTok THEN Null ELSE ParseInt(text.units)
        area  == IF text.area = NoTok THEN Null ELSE ParseFloat(text.area)
    IN  IF area = BadFloat THEN [raised |-> TRUE, result |-> EmptyDict]
        ELSE [raised |-> FALSE,
              result |-> [k \in {"units", "area"} |->
                            IF k = "units" THEN units ELSE area]]

\* max(int(n) for n in nums), None when nothing matched
RECURSIVE MaxOf(_)
MaxOf(vals) ==
    IF Len(vals) = 1 THEN vals[1]
    ELSE LET m == MaxOf(Tail(vals))
         IN  IF vals[1].c >= m.c THEN vals[1] ELSE m

regex_parse_listing(text) ==
    IF text.listing = <<>> THEN Null
    ELSE MaxOf([i \in 1..Len(text.listing) |-> ParseInt(text.listing[i])])

ScaleArea_NoConversion(val) == val

\* The x10000 rule of regex_parse_new_house: val * 10000 if val < 10000.
ScaleArea(val) == IF val.c < 10000 * 100 THEN Num(val.c * 10000) ELSE val

\* A trade page text: nh_units, the area match (its group, which pattern
\* matched, whether the source wrote the unit as 万), the listing matches.
regex_parse_new_house(text) ==
    LET units == IF text.nh_units = NoTok THEN Null ELSE ParseInt(text.nh_units)
        val   == IF text.area.tok = NoTok THEN Null ELSE ParseFloat(text.area.tok)
    IN  IF val = BadFloat THEN [raised |-> TRUE, result |-> EmptyDict]
        ELSE [raised |-> FALSE,
              result |-> [k \in {"units", "area"} |->
                            IF k = "units" THEN units
                            ELSE IF val = Null THEN Null ELSE ScaleArea(val)]]

\* ------------------------------------------------------------------ avg_area
\* round(n / d) to the nearest integer, exact ties to even (Python's round
\* on an exactly representable tie); d > 0.
RoundDiv(n, d) ==
    LET q == n \div d
        r == n % d
    IN  IF 2 * r < d THEN q
        ELSE IF 2 * r > d THEN q + 1
        ELSE IF q % 2 = 0 THEN q ELSE q + 1

\* float() of a number or of a string that spells one is that number.
avg_area(units, area) ==
    IF Truthy(units) /\ Truthy(area) /\ units.c > 0
    THEN Num(RoundDiv(100 * area.c, units.c))
    ELSE Null

\* ------------------------------------------------------- extraction inputs
\* Outcomes of parse_with_minimax: it raises (HTTP error, timeout, JSON that
\* does not parse), or returns the parsed JSON: an object, or another value.
MRaise == [kind |-> "raise", d |-> EmptyDict]
MNonDict == [kind |-> "nondict", d |-> EmptyDict]
MDict(d) == [kind |-> "dict", d |-> d]

SHDict(u, a) == [k \in {"units", "area"} |-> IF k = "units" THEN u ELSE a]
TradeDict(u, a, l) ==
    [k \in {"new_house_units", "new_house_area", "listing_total"} |->
        IF k = "new_house_units" THEN u
        ELSE IF k = "new_house_area" THEN a ELSE l]

ModelOutSH ==
    { MRaise, MNonDict,
      MDict(SHDict(Null, Null)),
      MDict(SHDict(Num(0), Null)),
      MDict(SHDict(Num(52700), Num(4224463))) }

ModelOutTrade ==
    { MRaise, MNonDict,
      MDict(TradeDict(Null, Null, Null)),
      MDict(TradeDict(Null, Num(4220000), Null)),
      MDict(TradeDict(Num(0), Null, Num(0))),
      MDict(TradeDict(Num(31000), Num(4220000), Num(5123400))) }

BlankSH == [kw |-> FALSE, units |-> NoTok, area |-> NoTok]

SHTexts ==
    { BlankSH,
      [kw |-> TRUE, units |-> NoTok, area |-> NoTok],
      [kw |-> TRUE, units |-> <<"5", "2", "7">>,
       area |-> <<"4", "2", "2", "4", "4", ".", "6", "3">>],
      [kw |-> TRUE, units |-> <<"1", ",", "2", "3", "4">>, area |-> <<"0">>],
      [kw |-> TRUE, units |-> <<"5", "2", "7">>, area |-> <<",">>] }

NoArea == [tok |-> NoTok, pat |-> "none", wan |-> FALSE]

BlankTrade == [kw |-> FALSE, nh_units |-> NoTok, area |-> NoArea, listing |-> <<>>]

TradeTexts ==
    { BlankTrade,
      [kw |-> TRUE, nh_units |-> NoTok, area |-> NoArea, listing |-> <<>>],
      [kw |-> TRUE, nh_units |-> <<"3", "1", "0">>,
       area |-> [tok |-> <<"4", ".", "2", "2">>, pat |-> "fallback", wan |-> TRUE],
       listing |-> << <<"5", "1", "2", "3", "4">>, <<"1", "2", "0", "0">> >>],
      [kw |-> TRUE, nh_units |-> <<"3", "1", "0">>,
       area |-> [tok |-> <<"1", "2", ",", "0", "0", "0", ".", "5", "0">>,
                 pat |-> "sqm", wan |-> FALSE],
       listing |-> << <<"1", "2", "0", "0">> >>] }

\* Outcome of the I/O before parsing: get_page_text and the debug file write.
IOs == {"ok", "render_raises", "debug_write_raises"}

\* ------------------------------------------------------------ the two chains
\* Acceptance tests of the model's candidate
sh_accept(result) == Truthy(Get(result, "units")) \/ Truthy(Get(result, "area"))

trade_accept(result) ==
    \E k \in {"new_house_units", "listing_total"} : Truthy(Get(result, k))

\* What a fetch returns or raises, and how often it called each strategy.
Fetched(raised, result, renders, modelCalls, regexCalls) ==
    [raised |-> raised, result |-> result, renders |-> renders,
     modelCalls |-> modelCalls, regexCalls |-> regexCalls]

\* fetch_second_hand without the try/except around the model strategy
fetch_second_hand_ModelRaisePropagates(io, text, key, mout) ==
    IF io # "ok" THEN Fetched(TRUE, EmptyDict, 1, 0, 0)
    ELSE LET tryModel == text.kw /\ key
             calls    == IF tryModel THEN 1 ELSE 0
         IN  IF tryModel /\ mout.kind # "dict"
             THEN Fetched(TRUE, EmptyDict, 1, 1, 0)
             ELSE IF tryModel /\ sh_accept(mout.d) THEN Fetched(FALSE, mout.d, 1, 1, 0)
             ELSE LET r == regex_parse_second_hand(text)
                  IN  Fetched(r.raised, r.result, 1, calls, 1)

\* fetch_second_hand that tries the model whether or not the key is set
fetch_second_hand_IgnoresKey(io, text, key, mout) ==
    IF io # "ok" THEN Fetched(TRUE, EmptyDict, 1, 0, 0)
    ELSE LET accepted == text.kw /\ mout.kind = "dict" /\ sh_accept(mout.d)
             calls    == IF text.kw THEN 1 ELSE 0
         IN  IF accepted THEN Fetched(FALSE, mout.d, 1, 1, 0)
             ELSE LET r == regex_parse_second_hand(text)
                  IN  Fetched(r.raised, r.result, 1, calls, 1)

fetch_second_hand(io, text, key, mout) ==
    IF io = "render_raises" THEN Fetched(TRUE, EmptyDict, 1, 0, 0)
    ELSE IF io = "debug_write_raises" THEN Fetched(TRUE, EmptyDict, 1, 0, 0)
    ELSE LET tryModel == text.kw /\ key
             accepted == tryModel /\ mout.kind = "dict" /\ sh_accept(mout.d)
             calls    == IF tryModel THEN 1 ELSE 0
         IN  IF accepted THEN Fetched(FALSE, mout.d, 1, 1, 0)
             ELSE LET r == regex_parse_second_hand(text)
                  IN  Fetched(r.raised, r.result, 1, calls, 1)

\* fetch_trade that asks the model a second time when it has raised
fetch_trade_RetriesModel(io, text, key, mout) ==
    IF io # "ok" THEN Fetched(TRUE, EmptyDict, 1, 0, 0)
    ELSE LET tryModel == text.kw /\ key
             accepted == tryModel /\ mout.kind = "dict" /\ trade_accept(mout.d)
             calls    == IF ~tryModel THEN 0 ELSE IF mout.kind = "raise" THEN 2 ELSE 1
         IN  IF accepted THEN Fetched(FALSE, mout.d, 1, 1, 0)
             ELSE LET nh == regex_parse_new_house(text)
                      listing == regex_parse_listing(text)
                  IN  IF nh.raised THEN Fetched(TRUE, EmptyDict, 1, calls, 1)
                      ELSE Fetched(FALSE,
                                   TradeDict(Get(nh.result, "units"),
                                             Get(nh.result, "area"), listing),
                                   1, calls, 1)

fetch_trade(io, text, key, mout) ==
    IF io = "render_raises" THEN Fetched(TRUE, EmptyDict, 1, 0, 0)
    ELSE IF io = "debug_write_raises" THEN Fetched(TRUE, EmptyDict, 1, 0, 0)
    ELSE LET tryModel == text.kw /\ key
             accepted == tryModel /\ mout.kind = "dict" /\ trade_accept(mout.d)
             calls    == IF tryModel THEN 1 ELSE 0
         IN  IF accepted THEN Fetched(FALSE, mout.d, 1, 1, 0)
             ELSE LET nh == regex_parse_new_house(text)
                      listing == regex_parse_listing(text)
                  IN  IF nh.raised THEN Fetched(TRUE, EmptyDict, 1, calls, 1)
                      ELSE Fetched(FALSE,
                                   TradeDict(Get(nh.result, "units"),
                                             Get(nh.result, "area"), listing),
                                   1, calls, 1)

\* --------------------------------------------------------------------- state
VARIABLES
    file,     \* HISTORY_FILE: whether it exists, whether its text is a whole
              \* JSON array, and the records its text holds
    run,      \* per process: the position and the locals of its run of main
    nruns     \* runs started so far (also the clock behind datetime.now())

vars == <<file, run, nruns>>

Absent == [exists |-> FALSE, complete |-> FALSE, recs |-> <<>>]

NoFetch == Fetched(FALSE, EmptyDict, 0, 0, 0)

\* A process that is not inside main.  Beside the locals of main a process
\* carries bookkeeping that the code does not hold: what the fetch that has
\* just returned was given and did (input, fetch; dropped by the step that
\* follows, only shFailed / tradeFailed are kept), the history as loaded,
\* and the seconds elapsed since the run began (now, shEnd, slept,
\* tradeStart).
Outside(pc, today, force, err) ==
    [pc |-> pc, today |-> today, force |-> force, key |-> FALSE, err |-> err,
     loaded |-> <<>>, history |-> <<>>, sh |-> EmptyDict, trade |-> EmptyDict,
     fetch |-> NoFetch, input |-> <<>>,
     shFailed |-> FALSE, tradeFailed |-> FALSE,
     record |-> <<>>, now |-> 0, shEnd |-> 0, slept |-> 0, tradeStart |-> 0]

Terminal == {"idle", "done", "skipped", "crashed"}

Crash(r, err) == Outside("crashed", r.today, r.force, err)

Init ==
    /\ file = Absent
    /\ run = [p \in Procs |-> Outside("idle", 0, FALSE, "")]
    /\ nruns = 0

\* --------------------------------------------------------------- the store
\* load_history: [] when the file does not exist, json.loads of its text
\* otherwise, which raises on a text that is not a whole JSON value.
load_history(f) ==
    IF ~f.exists THEN [raised |-> FALSE, history |-> <<>>]
    ELSE IF f.complete THEN [raised |-> FALSE, history |-> f.recs]
    ELSE [raised |-> TRUE, history |-> <<>>]

\* ---------------------------------------------------------------- main
\* today = date.today(); history = load_history(); keys: whether the
\* environment may hold MINIMAX_API_KEY
LoadHistoryWith(p, keys) ==
    /\ run[p].pc \in Terminal
    /\ nruns < MaxRuns
    /\ nruns' = nruns + 1
    /\ \E d \in Dates, f \in BOOLEAN, k \in keys :
         LET l == load_history(file)
         IN  run' = [run EXCEPT ![p] =
                 IF l.raised THEN Outside("crashed", d, f, "load")
                 ELSE [Outside("check", d, f, "") EXCEPT
                         !.key = k, !.loaded = l.history, !.history = l.history]]
    /\ UNCHANGED file

LoadHistory(p) == LoadHistoryWith(p, BOOLEAN)

HasDate(history, d) == \E i \in 1..Len(history) : history[i].date = d

ShouldSkip_DateNeverEqual(history, today, force) == FALSE

ShouldSkip_FlagInverted(history, today, force) ==
    HasDate(history, today) /\ force

\* if any(r["date"] == today ...) and "--force" not in sys.argv: return
ShouldSkip(history, today, force) == HasDate(history, today) /\ ~force

CheckExisting(p) ==
    /\ run[p].pc = "check"
    /\ run' = [run EXCEPT ![p] =
          IF ShouldSkip(@.history, @.today, @.force)
          THEN Outside("skipped", @.today, @.force, "")
          ELSE [@ EXCEPT !.pc = "mkdir"]]
    /\ UNCHANGED <<file, nruns>>

\* debug_dir.mkdir(exist_ok=True), outside any try
MkDebugDir(p) ==
    /\ run[p].pc = "mkdir"
    /\ \E ok \in BOOLEAN :
         run' = [run EXCEPT ![p] =
                   IF ok THEN [@ EXCEPT !.pc = "fetch_sh"] ELSE Crash(@, "mkdir")]
    /\ UNCHANGED <<file, nruns>>

\* Seconds a call of get_page_text takes at least: one wait_for_timeout(1000)
\* once page.goto has returned.
RenderSecs(io) == IF io = "render_raises" THEN 0 ELSE 1

\* try: sh = await fetch_second_hand(debug_dir)
\* except Exception: print(...)          (sh stays {})
CatchSecondHand_Propagates(r, f) ==
    IF f.raised THEN Crash(r, "fetch")
    ELSE [r EXCEPT !.pc = "sleep", !.sh = f.result, !.shFailed = FALSE]

CatchSecondHand(r, f) ==
    [r EXCEPT !.pc = "sleep",
              !.sh = IF f.raised THEN EmptyDict ELSE f.result,
              !.shFailed = f.raised]

\* ios, texts, mouts: what the page and the model backend may answer
FetchSecondHandFrom(p, ios, texts, mouts) ==
    /\ run[p].pc = "fetch_sh"
    /\ \E io \in ios, text \in texts, mout \in mouts :
         /\ io # "ok" => text = BlankSH
         /\ ~(io = "ok" /\ text.kw /\ run[p].key) => mout = MRaise
         /\ LET r == fetch_second_hand(io, text, run[p].key, mout)
            IN  run' = [run EXCEPT ![p] = [CatchSecondHand(@, r) EXCEPT
                    !.fetch = r,
                    !.input = <<[io |-> io, text |-> text, mout |-> mout]>>,
                    !.now = @ + RenderSecs(io),
                    !.shEnd = run[p].now + RenderSecs(io)]]
    /\ UNCHANGED <<file, nruns>>

FetchSecondHand(p) == FetchSecondHandFrom(p, IOs, SHTexts, ModelOutSH)

\* The wait between the two requests: unconditional, after the try/except.
SleepSecs_SkippedAfterFailure(r) == IF r.shFailed THEN 0 ELSE COURTESY_WAIT

SleepSecs(r) == COURTESY_WAIT

\* await asyncio.sleep(6)
Sleep(p) ==
    /\ run[p].pc = "sleep"
    /\ run' = [run EXCEPT ![p] = [@ EXCEPT
            !.pc = "fetch_trade",
            !.fetch = NoFetch,
            !.input = <<>>,
            !.slept = @ + SleepSecs(run[p]),
            !.now = @ + SleepSecs(run[p])]]
    /\ UNCHANGED <<file, nruns>>

\* try: trade = await fetch_trade(debug_dir)
\* except Exception: print(...)          (trade stays {})
CatchTrade_Propagates(r, f) ==
    IF f.raised THEN Crash(r, "fetch")
    ELSE [r EXCEPT !.pc = "assemble", !.trade = f.result, !.tradeFailed = FALSE]

CatchTrade(r, f) ==
    [r EXCEPT !.pc = "assemble",
              !.trade = IF f.raised THEN EmptyDict ELSE f.result,
              !.tradeFailed = f.raised]

FetchTradeFrom(p, ios, texts, mouts) ==
    /\ run[p].pc = "fetch_trade"
    /\ \E io \in ios, text \in texts, mout \in mouts :
         /\ io # "ok" => text = BlankTrade
         /\ ~(io = "ok" /\ text.kw /\ run[p].key) => mout = MRaise
         /\ LET r == fetch_trade(io, text, run[p].key, mout)
            IN  run' = [run EXCEPT ![p] = [CatchTrade(@, r) EXCEPT
                    !.fetch = r,
                    !.input = <<[io |-> io, text |-> text, mout |-> mout]>>,
                    !.tradeStart = run[p].now,
                    !.now = @ + RenderSecs(io)]]
    /\ UNCHANGED <<file, nruns>>

FetchTrade(p) == FetchTradeFrom(p, IOs, TradeTexts, ModelOutTrade)

\* The notes are fixed texts of main, written here in ASCII.
SH_NOTE == "second-hand: signed yesterday (T+1)"
NH_NOTE == "new house: today, cumulative"
LISTING_NOTE == "second-hand listings for sale"

\* record = {...} of main
MakeRecord(today, stamp, sh, trade) ==
    [date |-> today,
     scraped_at |-> stamp,
     second_hand |-> [units |-> Get(sh, "units"),
                      area |-> Get(sh, "area"),
                      avg_area |-> avg_area(Get(sh, "units"), Get(sh, "area")),
                      note |-> SH_NOTE],
     new_house |-> [units |-> Get(trade, "new_house_units"),
                    area |-> Get(trade, "new_house_area"),
                    avg_area |-> avg_area(Get(trade, "new_house_units"),
                                          Get(trade, "new_house_area")),
                    note |-> NH_NOTE],
     listing |-> [total |-> Get(trade, "listing_total"), note |-> LISTING_NOTE]]

\* list.sort(key=lambda x: x["date"]): stable, ascending
InsertByDate(r, s) ==
    LET k == Cardinality({i \in 1..Len(s) : s[i].date <= r.date})
    IN  SubSeq(s, 1, k) \o <<r>> \o SubSeq(s, k + 1, Len(s))

RECURSIVE SortByDate(_)
SortByDate(s) ==
    IF s = <<>> THEN <<>>
    ELSE InsertByDate(s[Len(s)], SortByDate(SubSeq(s, 1, Len(s) - 1)))

DropDate_KeepsAll(history, today) == history

\* history = [r for r in history if r["date"] != today]
DropDate(history, today) == SelectSeq(history, LAMBDA r : r.date # today)

Upsert_NoSort(history, record) ==
    Append(DropDate(history, record.date), record)

\* the filter, append and sort of main
Upsert(history, record) ==
    SortByDate(Append(DropDate(history, record.date), record))

Assemble(p) ==
    /\ run[p].pc = "assemble"
    /\ \E rec \in {MakeRecord(run[p].today, nruns, run[p].sh, run[p].trade)} :
           run' = [run EXCEPT ![p] = [@ EXCEPT
               !.pc = "save_open",
               !.input = <<>>,
               !.fetch = NoFetch,
               !.now = 0, !.shEnd = 0, !.slept = 0, !.tradeStart = 0,
               !.record = <<rec>>,
               !.history = Upsert(@, rec)]]
    /\ UNCHANGED <<file, nruns>>

\* The file right after open(..., "w"): empty, so not a JSON text.
Truncated == [exists |-> TRUE, complete |-> FALSE, recs |-> <<>>]

\* The file once the whole text is written.
Written(history) == [exists |-> TRUE, complete |-> TRUE, recs |-> history]

\* A failure of save_history: main has no handler, the exception leaves it.
SaveFailed_Swallowed(r) == [r EXCEPT !.pc = "report"]

SaveFailed(r) == Crash(r, "save")

\* save_history, first half: Path.write_text opens the file with mode "w",
\* which empties it; an open that fails leaves the file as it was.
SaveOpen(p) ==
    /\ run[p].pc = "save_open"
    /\ \E ok \in BOOLEAN :
         IF ok
         THEN /\ file' = Truncated
              /\ run' = [run EXCEPT ![p] = [@ EXCEPT !.pc = "save_write"]]
         ELSE /\ file' = file
              /\ run' = [run EXCEPT ![p] = SaveFailed(@)]
    /\ UNCHANGED nruns

\* What a failed write leaves in the file: the first k records of the text
\* and no closing bracket.
Torn(history, k) ==
    [exists |-> TRUE, complete |-> FALSE, recs |-> SubSeq(history, 1, k)]


\* save_history, second half: the text is written and the file closed; a
\* write that fails (disk full) or is interrupted leaves a prefix.
SaveWrite(p) ==
    /\ run[p].pc = "save_write"
    /\ \/ /\ file' = Written(run[p].history)
          /\ run' = [run EXCEPT ![p] = [@ EXCEPT !.pc = "report"]]
       \/ \E k \in 0..Len(run[p].history) :
            /\ file' = Torn(run[p].history, k)
            /\ run' = [run EXCEPT ![p] = SaveFailed(@)]
    /\ UNCHANGED nruns

\* print("saved"), print(record); main returns
Report(p) ==
    /\ run[p].pc = "report"
    /\ run' = [run EXCEPT ![p] = Outside("done", @.today, @.force, "")]
    /\ UNCHANGED <<file, nruns>>

Step(p) ==
    \/ LoadHistory(p)
    \/ CheckExisting(p)
    \/ MkDebugDir(p)
    \/ FetchSecondHand(p)
    \/ Sleep(p)
    \/ FetchTrade(p)
    \/ Assemble(p)
    \/ SaveOpen(p)
    \/ SaveWrite(p)
    \/ Report(p)

Next == \E p \in Procs : Step(p)

Spec == Init /\ [][Next]_vars

\* ------------------------------------------- any JSON object from the model
\* json.loads gives whatever object the model wrote: a count may come as a
\* string ("527"), as a number that is not whole (527.5) or negative (-1),
\* an area as a negative number.
AnyJSONSH ==
    { MDict(SHDict(Str(52700), Num(4224463))),
      MDict(SHDict(Num(52750), Null)),
      MDict(SHDict(Num(52700), Num(4224463))) }

AnyJSONTrade ==
    { MDict(TradeDict(Num(-100), Null, Num(5123400))),
      MDict(TradeDict(Num(31000), Num(-100), Null)),
      MDict(TradeDict(Null, Null, Str(5123400))),
      MDict(TradeDict(Num(31000), Num(4220000), Num(5123400))) }

\* Pages that show the keywords, so that the model strategy is tried.
KeywordSHTexts == {t \in SHTexts : t.kw}
KeywordTradeTexts == {t \in TradeTexts : t.kw}

\* main with the key set and pages that render, the model free to answer
\* with any of the objects above.
StepAnyJSON(p) ==
    \/ LoadHistoryWith(p, {TRUE})
    \/ CheckExisting(p)
    \/ MkDebugDir(p)
    \/ FetchSecondHandFrom(p, {"ok"}, KeywordSHTexts, AnyJSONSH)
    \/ Sleep(p)
    \/ FetchTradeFrom(p, {"ok"}, KeywordTradeTexts, AnyJSONTrade)
    \/ Assemble(p)
    \/ SaveOpen(p)
    \/ SaveWrite(p)
    \/ Report(p)

NextAnyJSON == \E p \in Procs : StepAnyJSON(p)

SpecAnyJSON == Init /\ [][NextAnyJSON]_vars

\* ---------------------------------------- regex_parse_new_house on its own
\* Area groups the two patterns can match: below and above the threshold,
\* with thousands separators, and one with no digit in it.
AreaToks ==
    { <<"4", ".", "2", "2">>,
      <<"0", ".", "0", "7">>,
      <<"2", ",", "0", "0", "0", ".", "0", "0">>,
      <<"1", "0", "0", "0", "0", ".", "0", "0">>,
      <<"1", "2", ",", "0", "0", "0", ".", "5", "0">>,
      <<"4", "2", "2", "4", "4", ".", "6", "3">> }

\* 面积 ... 平方米 (first pattern), or 今日 ... 万?[㎡平] with or without the
\* 万 (second pattern); "," alone matches the first pattern only.
AreaMatches ==
    {NoArea, [tok |-> <<",">>, pat |-> "sqm", wan |-> FALSE]}
       \cup {[tok |-> t, pat |-> "sqm", wan |-> FALSE] : t \in AreaToks}
       \cup {[tok |-> t, pat |-> "fallback", wan |-> w] :
                 t \in AreaToks, w \in BOOLEAN}

ParseTexts ==
    {[kw |-> TRUE, nh_units |-> u, area |-> a, listing |-> <<>>] :
        u \in {NoTok, <<"3", "1", "0">>, <<"1", ",", "2", "3", "4">>},
        a \in AreaMatches}

\* A text is given to regex_parse_new_house.
InitParse ==
    /\ file = Absent
    /\ nruns = 0
    /\ \E t \in ParseTexts :
          run = [p \in Procs |->
                   [Outside("idle", 0, FALSE, "") EXCEPT
                       !.input = <<[io |-> "ok", text |-> t, mout |-> MRaise]>>]]

\* nh = regex_parse_new_house(text)
ParseNewHouse(p) ==
    /\ run[p].pc = "idle"
    /\ LET nh == regex_parse_new_house(run[p].input[1].text)
       IN  run' = [run EXCEPT ![p] = [@ EXCEPT
               !.pc = "parsed",
               !.fetch = Fetched(nh.raised, nh.result, 0, 0, 1)]]
    /\ UNCHANGED <<file, nruns>>

NextParse == \E p \in Procs : ParseNewHouse(p)

SpecParse == InitParse /\ [][NextParse]_vars

\* ------------------------------------------------------ two runs at a time
\* Two processes run main once each, their steps interleaved in any order:
\* nothing in the code (no lock on HISTORY_FILE) keeps a second run from
\* starting while the first is between its load and its save.
Overlapping == {1, 2}

InitOverlap ==
    /\ file = Absent
    /\ run = [p \in Overlapping |-> Outside("idle", 0, FALSE, "")]
    /\ nruns = 0

\* Pages on which the regex strategy finds its fields.
FullSHTexts == {t \in SHTexts : t.kw /\ t.units = <<"5", "2", "7">> /\ Len(t.area) > 1}
FullTradeTexts == {t \in TradeTexts : t.kw /\ t.area.pat = "sqm"}

StepOverlap(p) ==
    \/ (run[p].pc = "idle" /\ LoadHistoryWith(p, {FALSE}))
    \/ CheckExisting(p)
    \/ MkDebugDir(p)
    \/ FetchSecondHandFrom(p, {"ok"}, FullSHTexts, {MRaise})
    \/ Sleep(p)
    \/ FetchTradeFrom(p, {"ok"}, FullTradeTexts, {MRaise})
    \/ Assemble(p)
    \/ SaveOpen(p)
    \/ SaveWrite(p)
    \/ Report(p)

NextOverlap == \E p \in Overlapping : StepOverlap(p)

SpecOverlap == InitOverlap /\ [][NextOverlap]_vars

\* =================================================================== claims
StrictlyAscending(recs) ==
    \A i \in 1..(Len(recs) - 1) : recs[i].date < recs[i + 1].date

\* C1: whatever runs have taken place (any dates, forced or not, any
\* extraction outcome), the records the history file holds are strictly
\* ascending by date, so no two of them carry the same date.  This covers
\* the file a completed save_history leaves and the prefix a failed one leaves.
C1_StoreStrictlyAscending ==
    file.exists => StrictlyAscending(file.recs)

\* C1 witness: a later run for an earlier date has been saved in front of the
\* record of the earlier run.
C1_Witness ==
    /\ file.complete
    /\ Len(file.recs) = 2
    /\ file.recs[1].scraped_at = 2
    /\ file.recs[2].scraped_at = 1

\* The run of p found today's date in the history it loaded, without --force.
SkipCase(r) == HasDate(r.loaded, r.today) /\ ~r.force

\* C2: a run on a date the store already holds, without --force, leaves the
\* file as it is at every step it takes (the load and the check), and the
\* check ends the run in Skip.
C2_SkipNeverWrites ==
    [][\A p \in Procs :
         /\ (run'[p].pc = "check" /\ run[p].pc # "check" /\ SkipCase(run'[p]))
               => file' = file
         /\ (run[p].pc = "check" /\ SkipCase(run[p]))
               => (file' = file /\ run'[p].pc = "skipped")]_vars

\* C2 witness: the second run has skipped on a date the file holds.
C2_Witness ==
    /\ nruns = 2
    /\ run[1].pc = "skipped"
    /\ file.complete
    /\ HasDate(file.recs, run[1].today)

DateCount(recs, d) == Cardinality({i \in 1..Len(recs) : recs[i].date = d})

\* The record holds, field by field, what this run extracted and nothing else.
FromThisRun(rec, r, stamp) ==
    /\ rec.date = r.today
    /\ rec.scraped_at = stamp
    /\ rec.second_hand.units = Get(r.sh, "units")
    /\ rec.second_hand.area = Get(r.sh, "area")
    /\ rec.new_house.units = Get(r.trade, "new_house_units")
    /\ rec.new_house.area = Get(r.trade, "new_house_area")
    /\ rec.listing.total = Get(r.trade, "listing_total")

\* C3: when a run with --force on a date that had a record has saved, the
\* file holds exactly one record for that date, and each of its fields is
\* this run's value, absent where this run found nothing.
C3_ForceReplacesWhole ==
    \A p \in Procs :
        (run[p].pc = "report" /\ run[p].force
            /\ HasDate(run[p].loaded, run[p].today))
        => /\ file.complete
           /\ DateCount(file.recs, run[p].today) = 1
           /\ \A i \in 1..Len(file.recs) :
                 file.recs[i].date = run[p].today
                    => FromThisRun(file.recs[i], run[p], nruns)

\* C3 witness: the old record had second-hand units, the forced run found
\* none, and the run has saved.
C3_Witness ==
    /\ run[1].pc = "report"
    /\ run[1].force
    /\ \E i \in 1..Len(run[1].loaded) :
          /\ run[1].loaded[i].date = run[1].today
          /\ run[1].loaded[i].second_hand.units # Null
    /\ Get(run[1].sh, "units") = Null

\* avg_area of a group is present exactly when units > 0 and area is present,
\* and is then area / units to within half a hundredth.
AvgAreaAsSpecified(g) ==
    /\ (g.avg_area # Null) <=> (g.units.t = "num" /\ g.units.c > 0 /\ g.area # Null)
    /\ g.avg_area # Null =>
          LET d == g.avg_area.c * g.units.c - 100 * g.area.c
          IN  2 * d <= g.units.c /\ 2 * d >= -g.units.c

\* C4: in every record main assembles, avg_area(units, area) is present if
\* and only if units > 0 and area is present, and then equals area / units
\* rounded to 2 decimals.
C4_AvgAreaPresentIff ==
    \A p \in Procs :
        run[p].record # <<>> =>
            /\ AvgAreaAsSpecified(run[p].record[1].second_hand)
            /\ AvgAreaAsSpecified(run[p].record[1].new_house)

\* C4 holds of every assembled record but those with a present area of 0
\* and units > 0: units 1,234 with area 0 gives no avg_area.
C4_Witness ==
    \E p \in Procs :
        /\ run[p].record # <<>>
        /\ run[p].record[1].second_hand.units = Num(123400)
        /\ run[p].record[1].second_hand.area = Num(0)
        /\ run[p].record[1].second_hand.avg_area = Null

\* The fetch that has just returned in the run of p, and what it was given.
JustFetched(p, pc) == run[p].pc = pc /\ run[p].input # <<>>

TriedModel(p) ==
    /\ run[p].input[1].io = "ok"
    /\ run[p].input[1].text.kw
    /\ run[p].key

\* What the regex strategy alone gives on a page text, as a fetch result.
RegexSecondHand(text) ==
    LET r == regex_parse_second_hand(text) IN [raised |-> r.raised, result |-> r.result]

RegexTrade(text) ==
    LET nh == regex_parse_new_house(text)
    IN  IF nh.raised THEN [raised |-> TRUE, result |-> EmptyDict]
        ELSE [raised |-> FALSE,
              result |-> TradeDict(Get(nh.result, "units"), Get(nh.result, "area"),
                                   regex_parse_listing(text))]

\* One chain obeys model-then-regex: the regex strategy runs only after the
\* model strategy was tried or was not eligible; when the model strategy
\* raised, the fetch gives exactly what the regex strategy gives on the same
\* text; when the model's candidate passed the chain's acceptance test, it is
\* the result and the regex was not run.
ChainOrder(p, regex, accepted) ==
    LET in == run[p].input[1]
        f  == run[p].fetch
    IN  /\ (TriedModel(p) /\ f.regexCalls > 0) => f.modelCalls = 1
        /\ (TriedModel(p) /\ in.mout.kind \in {"raise", "nondict"})
              => /\ f.modelCalls = 1
                 /\ f.regexCalls = 1
                 /\ f.raised = regex.raised
                 /\ f.result = regex.result
        /\ (TriedModel(p) /\ accepted)
              => /\ f.modelCalls = 1
                 /\ f.regexCalls = 0
                 /\ ~f.raised
                 /\ f.result = in.mout.d
        /\ f.regexCalls = 0 => (f.raised \/ (TriedModel(p) /\ accepted))

\* C5: in fetch_second_hand and in fetch_trade the model strategy is tried
\* first; an exception of the model strategy stays inside the chain and the
\* group's candidate is the regex strategy's output on the same page text;
\* when the model's candidate is accepted the regex strategy is not invoked.
C5_ModelThenRegex ==
    \A p \in Procs :
        /\ JustFetched(p, "sleep")
              => ChainOrder(p, RegexSecondHand(run[p].input[1].text),
                            /\ run[p].input[1].mout.kind = "dict"
                            /\ sh_accept(run[p].input[1].mout.d))
        /\ JustFetched(p, "assemble")
              => ChainOrder(p, RegexTrade(run[p].input[1].text),
                            /\ run[p].input[1].mout.kind = "dict"
                            /\ trade_accept(run[p].input[1].mout.d))

\* C5 witness: the model strategy raised on a second-hand page that carries
\* the figures, and the group's candidate is the regex's 527 units.
C5_Witness ==
    /\ JustFetched(1, "sleep")
    /\ TriedModel(1)
    /\ run[1].input[1].mout = MRaise
    /\ ~run[1].shFailed
    /\ run[1].sh = SHDict(Num(52700), Num(4224463))
    /\ run[1].fetch.regexCalls = 1

\* The model's candidate has a non-absent field among ks (0 counts).
SomePresent(d, ks) == \E k \in ks : Get(d, k) # Null

\* The candidate the model returned is the result of the fetch and the regex
\* was consulted exactly when every field of the group is absent.
AcceptedIffPresent(p, ks) ==
    LET in == run[p].input[1]
        f  == run[p].fetch
    IN  (TriedModel(p) /\ in.mout.kind = "dict")
        => /\ SomePresent(in.mout.d, ks) <=> (f.regexCalls = 0 /\ f.result = in.mout.d)
           /\ (f.regexCalls = 1) <=> ~SomePresent(in.mout.d, ks)

\* C6: the model's candidate is returned as the group's result exactly when
\* at least one of the group's numeric fields is non-absent (a present 0
\* counts), and the regex strategy is consulted only when all are absent.
C6_AcceptsAnyPresentField ==
    \A p \in Procs :
        /\ JustFetched(p, "sleep")
              => AcceptedIffPresent(p, {"units", "area"})
        /\ JustFetched(p, "assemble")
              => AcceptedIffPresent(p, {"new_house_units", "new_house_area",
                                        "listing_total"})

\* C6 fails on a candidate whose only present field is 0 (here units 0):
\* the chain drops it and runs the regex.
C6_Witness ==
    /\ JustFetched(1, "sleep")
    /\ TriedModel(1)
    /\ run[1].input[1].mout = MDict(SHDict(Num(0), Null))
    /\ run[1].fetch.regexCalls = 1

AllAbsentGroup(g, note) ==
    g = [units |-> Null, area |-> Null, avg_area |-> Null, note |-> note]

InFile(rec) == \E i \in 1..Len(file.recs) : file.recs[i] = rec

\* C7: an exception while fetching a group does not end the run: after either
\* fetch, raised or not, main goes on (to the wait and the other group, then
\* to the record); a failed group is in the record with all numeric fields
\* absent and its note; and the save that follows persists that record.
C7_GroupFailureIsolated ==
    [][\A p \in Procs :
         /\ run[p].pc = "fetch_sh" => run'[p].pc = "sleep"
         /\ run[p].pc = "sleep" => run'[p].pc = "fetch_trade"
         /\ run[p].pc = "fetch_trade"
               => (run'[p].pc = "assemble" /\ run'[p].fetch.renders = 1)
         /\ run[p].pc = "assemble"
               => /\ run'[p].pc = "save_open"
                  /\ run[p].shFailed
                        => AllAbsentGroup(run'[p].record[1].second_hand, SH_NOTE)
                  /\ run[p].tradeFailed
                        => /\ AllAbsentGroup(run'[p].record[1].new_house, NH_NOTE)
                           /\ run'[p].record[1].listing
                                 = [total |-> Null, note |-> LISTING_NOTE]
         /\ (run[p].pc = "save_write" /\ run'[p].pc = "report")
               => (file'.complete /\ InFile(run[p].record[1])')]_vars

\* C7 witness: the second-hand fetch raised, the trade group was extracted,
\* and the record has been saved.
C7_Witness ==
    /\ run[1].pc = "report"
    /\ run[1].shFailed
    /\ ~run[1].tradeFailed
    /\ run[1].record[1].new_house.units = Num(31000)
    /\ AllAbsentGroup(run[1].record[1].second_hand, SH_NOTE)
    /\ file.complete
    /\ InFile(run[1].record[1])

\* C8: the trade page is requested only after the second-hand request has
\* ended and 6 more seconds have passed, whether or not the first group
\* failed: no run waits less.
C8_WaitBetweenRequests ==
    \A p \in Procs :
        /\ run[p].pc = "fetch_trade"
              => (run[p].slept = 6 /\ run[p].now >= run[p].shEnd + 6)
        /\ run[p].pc = "assemble"
              => /\ run[p].slept = 6
                 /\ run[p].tradeStart >= run[p].shEnd + 6

\* C8 witness: the first request failed at once and the trade page was still
\* requested 6 seconds later.
C8_Witness ==
    /\ run[1].pc = "assemble"
    /\ run[1].shFailed
    /\ run[1].shEnd = 0
    /\ run[1].tradeStart = 6

\* C9: the file is at all times a whole history: the one the run loaded, or
\* the one it is saving.
C9_WriteAllOrNothing ==
    /\ file.exists => file.complete
    /\ \A p \in Procs :
          run[p].pc \in {"save_open", "save_write", "report"}
             => (file.recs = run[p].loaded \/ file.recs = run[p].history)

\* C9 fails: a failed write has left one of two records and no closing
\* bracket in the file.
C9_Witness ==
    /\ file.exists
    /\ ~file.complete
    /\ Len(file.recs) = 1
    /\ run[1].pc = "crashed"
    /\ run[1].err = "save"

\* C10: when save_history fails (the open fails, or the write leaves anything
\* but the whole new history), the exception leaves main: the run ends
\* crashed on the save and never reports the record as saved; the report is
\* reached only from a save that wrote the whole history.
C10_SaveFailureIsFatal ==
    [][\A p \in Procs :
         /\ (run[p].pc = "save_open" /\ file' # Truncated)
               => (run'[p].pc = "crashed" /\ run'[p].err = "save")
         /\ (run[p].pc = "save_write" /\ file' # Written(run[p].history))
               => (run'[p].pc = "crashed" /\ run'[p].err = "save")
         /\ (run'[p].pc = "report" /\ run[p].pc # "report")
               => (run[p].pc = "save_write" /\ file' = Written(run[p].history))
         /\ (run'[p].pc = "done" /\ run[p].pc # "done")
               => run[p].pc = "report"]_vars

\* C10 witness: a run has ended on a failed save that left a torn file.
C10_Witness ==
    /\ run[1].pc = "crashed"
    /\ run[1].err = "save"
    /\ file.exists
    /\ ~file.complete

\* The order of the positions of main: every step moves forward in it.
PcRank(pc) ==
    CASE pc = "check" -> 1 [] pc = "mkdir" -> 2 [] pc = "fetch_sh" -> 3
      [] pc = "sleep" -> 4 [] pc = "fetch_trade" -> 5 [] pc = "assemble" -> 6
      [] pc = "save_open" -> 7 [] pc = "save_write" -> 8 [] pc = "report" -> 9
      [] OTHER -> 10

InMain(p) == run[p].pc \notin Terminal

\* C11: every run of main ends, and ends in one of three ways.  A run that
\* is inside main can always take a step, and each step moves it forward, so
\* it reaches an end in at most nine steps.  The end is Done with today's
\* record in a whole file, or Skip, or an exception from the store or the
\* data directory (the load, the mkdir, the save); an exception of a fetch
\* (rendering, model backend, parsing) never ends a run.  This holds whatever
\* file earlier runs left, a torn one included.
C11_ThreeOutcomes ==
    /\ [](\A p \in Procs :
            /\ InMain(p) => ENABLED Step(p)
            /\ run[p].pc = "crashed" => run[p].err \in {"load", "mkdir", "save"}
            /\ run[p].pc = "done"
                  => (file.complete /\ HasDate(file.recs, run[p].today)))
    /\ [][\A p \in Procs :
            /\ InMain(p) => PcRank(run'[p].pc) > PcRank(run[p].pc)
            /\ (InMain(p) /\ ~InMain(p)')
                  => run'[p].pc \in {"done", "skipped", "crashed"}]_vars

\* C11 witness: the run after a failed write has ended on the load of the
\* torn file.
C11_Witness ==
    /\ nruns = 2
    /\ run[1].pc = "crashed"
    /\ run[1].err = "load"
    /\ file.exists
    /\ ~file.complete

NothingFetched(r) ==
    /\ r.fetch = NoFetch
    /\ r.input = <<>>
    /\ r.sh = EmptyDict
    /\ r.trade = EmptyDict
    /\ r.now = 0

\* C12: a run that found today's date in the store and has no --force is
\* inside main only at the check, with no page rendered and no strategy or
\* model backend invoked, and its one step from there is to Skip.
C12_SkipFetchesNothing ==
    /\ [](\A p \in Procs :
            (InMain(p) /\ SkipCase(run[p]))
               => (run[p].pc = "check" /\ NothingFetched(run[p])))
    /\ [][\A p \in Procs :
            (run[p].pc = "check" /\ SkipCase(run[p]))
               => (run'[p].pc = "skipped" /\ NothingFetched(run'[p]))]_vars

\* C12 witness: an unforced second run on the stored date is at Skip, having
\* fetched nothing.
C12_Witness ==
    /\ nruns = 2
    /\ run[1].pc = "skipped"
    /\ ~run[1].force
    /\ NothingFetched(run[1])
    /\ file.complete
    /\ DateCount(file.recs, run[1].today) = 1

\* One fetch made no second attempt: its page was rendered once, each
\* strategy ran at most once, a raising model strategy was followed by one
\* regex run and not by another model call, and a failed render was followed
\* by no strategy at all and left the group failed.
OneAttempt(p, failed) ==
    LET f  == run[p].fetch
        in == run[p].input[1]
    IN  /\ f.renders = 1
        /\ f.modelCalls \in {0, 1}
        /\ f.regexCalls \in {0, 1}
        /\ (TriedModel(p) /\ in.mout.kind # "dict")
              => (f.modelCalls = 1 /\ f.regexCalls = 1)
        /\ in.io # "ok" => (f.modelCalls = 0 /\ f.regexCalls = 0 /\ failed)

\* C14: nothing is retried.  After either fetch, the page was rendered once
\* and each strategy was invoked at most once for the group, whatever failed;
\* and a run leaves each fetch position for the next one, never to return.
C14_NoRetry ==
    /\ [](\A p \in Procs :
            /\ JustFetched(p, "sleep") => OneAttempt(p, run[p].shFailed)
            /\ JustFetched(p, "assemble") => OneAttempt(p, run[p].tradeFailed))
    /\ [][\A p \in Procs :
            /\ run[p].pc = "fetch_sh" => run'[p].pc = "sleep"
            /\ run[p].pc = "fetch_trade" => run'[p].pc = "assemble"
            /\ run[p].pc \in {"sleep", "assemble", "save_open", "save_write", "report"}
                  => run'[p].pc \notin {"fetch_sh", "check", "mkdir"}
            /\ run[p].pc \in {"assemble", "save_open", "save_write", "report"}
                  => run'[p].pc # "fetch_trade"]_vars

\* C14 witness: the model strategy raised on the trade page, and the fetch
\* ended after one model call and one regex run.
C14_Witness ==
    /\ JustFetched(1, "assemble")
    /\ TriedModel(1)
    /\ run[1].input[1].mout.kind = "raise"
    /\ run[1].fetch.modelCalls = 1
    /\ run[1].fetch.regexCalls = 1
    /\ ~run[1].fetch.raised

\* Without the key, a fetch made no model call and, its page rendered, gave
\* what the regex strategy gives on the page text; it raised only if the
\* page could not be fetched or the regex strategy itself raised.
KeylessFetch(p, regex(_)) ==
    LET f  == run[p].fetch
        in == run[p].input[1]
    IN  /\ f.modelCalls = 0
        /\ in.io = "ok"
              => /\ f.regexCalls = 1
                 /\ f.raised = regex(in.text).raised
                 /\ f.result = regex(in.text).result

\* C15: when MINIMAX_API_KEY is not set, neither fetch calls the model
\* backend or raises for the missing credential, and the candidate of each
\* group is the regex strategy's output.
C15_NoKeyNoModel ==
    \A p \in Procs :
        ~run[p].key =>
            /\ JustFetched(p, "sleep") => KeylessFetch(p, RegexSecondHand)
            /\ JustFetched(p, "assemble") => KeylessFetch(p, RegexTrade)

\* C15 witness: without the key, a page with the keywords present gave the
\* second-hand group from the regex strategy.
C15_Witness ==
    /\ JustFetched(1, "sleep")
    /\ ~run[1].key
    /\ run[1].input[1].io = "ok"
    /\ run[1].input[1].text.kw
    /\ run[1].fetch.modelCalls = 0
    /\ sh_accept(run[1].fetch.result)

\* The store, read back, holds the record.
StoreHas(f, rec) ==
    /\ f.exists
    /\ f.complete
    /\ \E i \in 1..Len(f.recs) : f.recs[i] = rec

\* C17: only save_history changes the file, and when the save of a run has
\* ended (written or failed) every record the run loaded under another date
\* than today is in the store unchanged, so that no date is lost from one
\* run to the next.
C17_OnlyTodayChanges ==
    [][\A p \in Procs :
         /\ file' # file => run[p].pc \in {"save_open", "save_write"}
         /\ (run[p].pc \in {"save_open", "save_write"}
               /\ run'[p].pc \in {"report", "crashed"})
              => \A i \in 1..Len(run[p].loaded) :
                    run[p].loaded[i].date # run[p].today
                       => StoreHas(file', run[p].loaded[i])]_vars

\* C17 fails: the second run, on another date, ended on a failed write; the
\* record of the first date is in a file that cannot be loaded any more.
C17_Witness ==
    /\ nruns = 2
    /\ run[1].pc = "crashed"
    /\ run[1].err = "save"
    /\ run[1].today = 2
    /\ ~file.complete
    /\ Len(file.recs) = 1
    /\ file.recs[1].date = 1

WholeCount(v) == v = Null \/ (v.t = "num" /\ v.c >= 0 /\ v.c % 100 = 0)

NonNegative(v) == v = Null \/ (v.t = "num" /\ v.c >= 0)

MatchesSchema(d, counts, areas) ==
    /\ \A k \in counts : WholeCount(d[k])
    /\ \A k \in areas : NonNegative(d[k])

\* The model's reply did not match the field schema, and the fetch gave what
\* the regex strategy gives on the page text.
MismatchFallsBack(p, counts, areas, regex(_)) ==
    LET in == run[p].input[1]
    IN  (TriedModel(p) /\ in.mout.kind = "dict"
           /\ ~MatchesSchema(in.mout.d, counts, areas))
          => /\ run[p].fetch.raised = regex(in.text).raised
             /\ run[p].fetch.result = regex(in.text).result

\* C13: whatever JSON object the model strategy returns, every record in the
\* store has units, new-house units and listing total absent or a
\* non-negative whole number, and areas absent or a non-negative number; and
\* after a reply that does not match the field schema the group's candidate
\* is the regex strategy's.
C13_StoredFieldsValid ==
    /\ \A i \in 1..Len(file.recs) :
          /\ WholeCount(file.recs[i].second_hand.units)
          /\ WholeCount(file.recs[i].new_house.units)
          /\ WholeCount(file.recs[i].listing.total)
          /\ NonNegative(file.recs[i].second_hand.area)
          /\ NonNegative(file.recs[i].new_house.area)
    /\ \A p \in Procs :
          /\ JustFetched(p, "sleep")
                => MismatchFallsBack(p, {"units"}, {"area"}, RegexSecondHand)
          /\ JustFetched(p, "assemble")
                => MismatchFallsBack(p, {"new_house_units", "listing_total"},
                                     {"new_house_area"}, RegexTrade)

\* C13 fails: the store, whole, holds a record whose second-hand units is a
\* string and whose new-house units is negative.
C13_Witness ==
    /\ file.complete
    /\ \E i \in 1..Len(file.recs) :
          /\ file.recs[i].second_hand.units.t = "str"
          /\ file.recs[i].new_house.units.t = "num"
          /\ file.recs[i].new_house.units.c < 0

\* Ten thousand, in hundredths.
Threshold == 10000 * 100

\* regex_parse_new_house has returned on a text whose area group is a number.
ParsedArea(p) ==
    /\ run[p].pc = "parsed"
    /\ run[p].input[1].text.area.tok # NoTok
    /\ ~run[p].fetch.raised

StoreHasDate(f, d) == f.exists /\ f.complete /\ HasDate(f.recs, d)

\* Run q has persisted its record.
Persisted(q) == run[q].pc \in {"report", "done"}

\* C16: a record that one run persisted is missing from the store after the
\* other run has ended only if their load-to-persist windows overlapped:
\* whenever a run's save ends, written or failed, and the date another run
\* persisted is not in the store, the saving run had loaded the store before
\* that record was in it.
C16_LossOnlyByOverlap ==
    [][\A p, q \in Overlapping :
         (/\ p # q
          /\ Persisted(q)
          /\ run[p].pc \in {"save_open", "save_write"}
          /\ run'[p].pc \in {"report", "crashed"}
          /\ ~StoreHasDate(file', run[q].today))
            => ~HasDate(run[p].loaded, run[q].today)]_vars

\* C16 witness, the race the claim describes: both runs have ended in Done,
\* the file is whole, and the date of one of them is not in it.
C16_Witness ==
    /\ \A p \in Overlapping : run[p].pc = "done"
    /\ file.complete
    /\ \E q \in Overlapping : ~HasDate(file.recs, run[q].today)

====
